---- MODULE Spec2Model ----
(***************************************************************************)
(* The route handlers and the model selection form of codewiki.            *)
(*                                                                         *)
(*   src/src/app/api/gerrit/verify/route.ts   POST, two candidate          *)
(*                                            endpoints ("route")          *)
(*   src/unnamed/part_000                     POST, one endpoint           *)
(*                                            ("part_000")                 *)
(*   src/unnamed/part_001                     extractUrlDomain             *)
(*   src/src/app/api/litellm/test-connection/route.ts                      *)
(*                                            POST ("test-connection")     *)
(*   src/src/app/api/gerrit/structure/route.ts   POST ("structure")        *)
(*   src/src/components/UserSelector.tsx      the form (SpecForm)          *)
(*                                                                         *)
(* Text is a sequence of one-character strings.  An error message is a     *)
(* sequence of words, and String.includes on a message is containment of   *)
(* a run of words.                                                         *)
(***************************************************************************)
EXTENDS Integers, Sequences, FiniteSets, TLC

VARIABLES
    handler,        \* which handler serves the request: see Handlers
    url,            \* the url field of the request body (the input of extractUrlDomain)
    bodyKind,       \* what the request body is: see BodyKinds
    pc,             \* "start" | "fetch" (awaiting fetch) | "text" (awaiting response.text()) | "done"
                    \* | "lost" (the request did not reach the handler)
    idx,            \* index in endpointsToTry of the candidate being tried, 0 before the loop
    baseUrl,        \* baseUrl, or NoUrl while not computed / not computable
    timerArmed,     \* the setTimeout of the request is pending
    aborted,        \* controller.signal.aborted
    fetchCalls,     \* the fetch() calls made, in order: [cand, endpoint, aborted]
    upstream,       \* status of the response whose body is being read, 0 if none
    lastError,      \* lastError of route.ts, NoError while null
    response,       \* the response returned to the caller, NoResponse before
    tried,          \* history: the outcome of every candidate tried, in order
    nreq,           \* number of requests started
    reqBody,        \* the JSON object sent to a proxy handler, NoBody otherwise
    forwarded,      \* the body of the fetch a proxy handler made to the backend, NotForwarded if none
    backend,        \* history: what the backend did with the fetch of a proxy handler
    verified,       \* the promise of verifyGerritProject: "pending" | "true" | "false" | "rejected"
    \* UserSelector.tsx: props (state of the parent) and state of the component
    provider,       \* prop provider, "" while none is selected
    model,          \* prop model
    isCustomModel,  \* prop isCustomModel
    customModel,    \* prop customModel
    modelConfig,    \* state modelConfig, NoConfig while null
    isLoading,      \* state isLoading
    error,          \* state error, "" while null
    configFetches,  \* the fetches of /api/models/config in flight: the provider each closure holds
    timeouts,       \* the callbacks of handleProviderChange waiting for their 10 ms, in order
    nfetch,         \* history: number of fetches of /api/models/config started
    wasReady,       \* history: the form has been rendered (not the Loading text)
    lastEvent,      \* history: the step taken last
    litellmApiKey,  \* effectiveLitellmApiKey
    litellmBaseUrl, \* effectiveLitellmBaseUrl
    isTestingConnection,    \* state isTestingConnection
    connectionTestResult,   \* state connectionTestResult, NoResult while null
    testFetch,      \* the fetch of /api/litellm/test-connection in flight and the body it sent
    resultFor,      \* history: the credentials sent by the test that set connectionTestResult
    ntest           \* history: number of connection tests started

handlerVars == <<handler, url, bodyKind, pc, idx, baseUrl, timerArmed, aborted, fetchCalls,
                 upstream, lastError, response, tried, nreq, reqBody, forwarded, backend,
                 verified>>

selectorVars == <<provider, model, isCustomModel, customModel, modelConfig, isLoading,
                  error, configFetches, timeouts, nfetch, wasReady, lastEvent>>

litellmVars == <<litellmApiKey, litellmBaseUrl, isTestingConnection, connectionTestResult,
                 testFetch, resultFor, ntest>>

formVars == <<selectorVars, litellmVars>>

vars == <<handlerVars, formVars>>

\* Requests served one after the other in a behaviour.
MaxRequests == 2

\* Fetches of /api/models/config started by one mounted form.
MaxFetches == 3

\* Callbacks of handleProviderChange waiting at the same time.
MaxPending == 2

\* Connection tests started by one mounted form.
MaxTests == 1

-----------------------------------------------------------------------------
(* String primitives (ECMAScript String.prototype)                         *)

WhiteSpace == {" ", "\n", "\t", "\r"}

RECURSIVE trimStart(_)
trimStart(s) ==
    IF s # <<>> /\ Head(s) \in WhiteSpace THEN trimStart(Tail(s)) ELSE s

RECURSIVE trimEnd(_)
trimEnd(s) ==
    IF s # <<>> /\ s[Len(s)] \in WhiteSpace THEN trimEnd(SubSeq(s, 1, Len(s) - 1)) ELSE s

trim(s) == trimEnd(trimStart(s))

startsWith(s, p) == Len(s) >= Len(p) /\ SubSeq(s, 1, Len(p)) = p

slice(s, n) == SubSeq(s, n + 1, Len(s))

\* message.includes(pattern), on sequences of words
includes(msg, pat) ==
    \E i \in 1..(Len(msg) - Len(pat) + 1) : SubSeq(msg, i, i + Len(pat) - 1) = pat

IndexOf(s, chars) ==
    IF \E i \in 1..Len(s) : s[i] \in chars
    THEN CHOOSE i \in 1..Len(s) : s[i] \in chars /\ \A j \in 1..(i - 1) : s[j] \notin chars
    ELSE 0

-----------------------------------------------------------------------------
(* JSON.parse, on the grammar of the bodies below: a string without        *)
(* escapes, an unsigned number, null, true, false, {}, [] and              *)
(* {"gerrit_version":<string or number>}.  Anything else is a SyntaxError. *)

Digits == {"0", "1", "2", "3", "4", "5", "6", "7", "8", "9"}

JsonError == [type |-> "error", str |-> <<>>, gvType |-> "absent", gvStr |-> <<>>]
JsonNull == [type |-> "null", str |-> <<>>, gvType |-> "absent", gvStr |-> <<>>]
Scalar(t, s) == [type |-> t, str |-> s, gvType |-> "absent", gvStr |-> <<>>]

IsStringLiteral(t) ==
    /\ Len(t) >= 2
    /\ t[1] = "\""
    /\ t[Len(t)] = "\""
    /\ \A i \in 2..(Len(t) - 1) : t[i] # "\""

IsInteger(t) ==
    /\ t # <<>>
    /\ \A i \in 1..Len(t) : t[i] \in Digits
    /\ (Len(t) > 1 => t[1] # "0")

IsNumberLiteral(t) ==
    LET dot == IndexOf(t, {"."})
    IN  IF dot = 0
        THEN IsInteger(t)
        ELSE /\ IsInteger(SubSeq(t, 1, dot - 1))
             /\ dot < Len(t)
             /\ \A i \in (dot + 1)..Len(t) : t[i] \in Digits

GerritVersionKey ==
    <<"{", "\"", "g", "e", "r", "r", "i", "t", "_", "v", "e", "r", "s", "i", "o", "n", "\"", ":">>

JSONparse(text) ==
    LET t == trim(text)
        member == SubSeq(t, Len(GerritVersionKey) + 1, Len(t) - 1)
    IN  IF IsStringLiteral(t) THEN Scalar("string", SubSeq(t, 2, Len(t) - 1))
        ELSE IF IsNumberLiteral(t) THEN Scalar("number", t)
        ELSE IF t = <<"n", "u", "l", "l">> THEN JsonNull
        ELSE IF t = <<"t", "r", "u", "e">> \/ t = <<"f", "a", "l", "s", "e">>
            THEN Scalar("boolean", t)
        ELSE IF t = <<"{", "}">> THEN Scalar("object", <<>>)
        ELSE IF t = <<"[", "]">> THEN Scalar("array", <<>>)
        ELSE IF startsWith(t, GerritVersionKey) /\ t[Len(t)] = "}" /\ IsStringLiteral(member)
            THEN [type |-> "object", str |-> <<>>, gvType |-> "string",
                  gvStr |-> SubSeq(member, 2, Len(member) - 1)]
        ELSE IF startsWith(t, GerritVersionKey) /\ t[Len(t)] = "}" /\ IsNumberLiteral(member)
            THEN [type |-> "object", str |-> <<>>, gvType |-> "number", gvStr |-> member]
        ELSE JsonError

\* typeof data
typeof(data) ==
    IF data.type \in {"object", "array", "null"} THEN "object" ELSE data.type

\* isValid without the tests on the type: any parsed value passes
isValid_AnyValue(data) == data.type # "error" /\ data.type # "null"

\* typeof data === 'string' || (typeof data === 'object' && data !== null)
isValid(data) ==
    typeof(data) = "string" \/ (typeof(data) = "object" /\ data.type # "null")

Unknown == [type |-> "string", str |-> <<"u", "n", "k", "n", "o", "w", "n">>]

\* a value is falsy: "" or 0 or undefined
Falsy(type, str) ==
    \/ type = "absent"
    \/ type = "string" /\ str = <<>>
    \/ type = "number" /\ \A i \in 1..Len(str) : str[i] \in {"0", "."}

\* typeof data === 'string' ? data : data.gerrit_version || 'unknown'
\* (data is not null: reading a property of null throws)
versionOf(data) ==
    IF typeof(data) = "string" THEN [type |-> "string", str |-> data.str]
    ELSE IF Falsy(data.gvType, data.gvStr) THEN Unknown
    ELSE [type |-> data.gvType, str |-> data.gvStr]

-----------------------------------------------------------------------------
(* new URL(input), without a base: scheme, then for http and https the     *)
(* authority after any run of slashes; for another scheme an authority     *)
(* only after "//".  Userinfo, IPv6 and percent-encoding are not in the    *)
(* inputs below.                                                           *)

Letters == {"a", "b", "c", "d", "e", "f", "g", "h", "i", "j", "k", "l", "m",
            "n", "o", "p", "q", "r", "s", "t", "u", "v", "w", "x", "y", "z"}

SchemeChars == Letters \cup Digits \cup {"+", "-", "."}

\* index of the ":" ending the scheme, 0 when the string has no scheme
SchemeEnd(s) ==
    LET colon == IndexOf(s, {":"})
    IN  IF /\ colon > 1
           /\ s[1] \in Letters
           /\ \A i \in 1..(colon - 1) : s[i] \in SchemeChars
        THEN colon ELSE 0

RECURSIVE SkipSlashes(_)
SkipSlashes(s) == IF s # <<>> /\ Head(s) \in {"/", "\\"} THEN SkipSlashes(Tail(s)) ELSE s

ForbiddenHostChars == {" ", "<", ">", "\n", "\t", "^", "|", "%", "[", "]", "\"", "'", ")", "}", "{"}

NoUrl == [ok |-> FALSE, protocol |-> <<>>, hostname |-> <<>>, port |-> <<>>]

DefaultPort(scheme) ==
    IF scheme = <<"h", "t", "t", "p">> THEN <<"8", "0">>
    ELSE IF scheme = <<"h", "t", "t", "p", "s">> THEN <<"4", "4", "3">>
    ELSE <<>>

\* host and port of an authority string
Authority(scheme, auth, special) ==
    LET colon == IndexOf(auth, {":"})
        host == IF colon = 0 THEN auth ELSE SubSeq(auth, 1, colon - 1)
        port == IF colon = 0 THEN <<>> ELSE SubSeq(auth, colon + 1, Len(auth))
    IN  IF \/ special /\ host = <<>>
           \/ \E i \in 1..Len(host) : host[i] \in ForbiddenHostChars
           \/ \E i \in 1..Len(port) : port[i] \notin Digits
        THEN NoUrl
        ELSE [ok |-> TRUE, protocol |-> scheme \o <<":">>, hostname |-> host,
              port |-> IF port = DefaultPort(scheme) THEN <<>> ELSE port]

URL(s) ==
    LET colon == SchemeEnd(s)
        scheme == SubSeq(s, 1, colon - 1)
        rest == SubSeq(s, colon + 1, Len(s))
        special == scheme \in {<<"h", "t", "t", "p">>, <<"h", "t", "t", "p", "s">>}
        afterSlashes == IF special THEN SkipSlashes(rest) ELSE slice(rest, 2)
        stop == IndexOf(afterSlashes, {"/", "?", "#"})
        auth == IF stop = 0 THEN afterSlashes ELSE SubSeq(afterSlashes, 1, stop - 1)
    IN  IF colon = 0 THEN NoUrl
        ELSE IF special \/ startsWith(rest, <<"/", "/">>)
            THEN Authority(scheme, auth, special)
        ELSE [ok |-> TRUE, protocol |-> scheme \o <<":">>, hostname |-> <<>>, port |-> <<>>]

Https == <<"h", "t", "t", "p", "s", ":", "/", "/">>

\* input.startsWith('http') ? input : `https://${input}`
normalizedInput(input) ==
    IF startsWith(input, <<"h", "t", "t", "p">>) THEN input ELSE Https \o input

\* `${url.protocol}//${url.hostname}${url.port ? ':' + url.port : ''}`
Origin(u) ==
    u.protocol \o <<"/", "/">> \o u.hostname \o (IF u.port # <<>> THEN <<":">> \o u.port ELSE <<>>)

\* extractUrlDomain: the origin, or NoDomain for null
NoDomain == <<"n", "u", "l", "l", " ">>

extractUrlDomain(input) ==
    LET u == URL(normalizedInput(input))
    IN  IF u.ok THEN Origin(u) ELSE NoDomain

-----------------------------------------------------------------------------
(* The inputs: request urls, upstream statuses, bodies and errors          *)

Urls == {
    <<>>,
    <<"g", ".", "c">>,
    <<"g", ".", "c", "/", "r">>,
    <<"g", ".", "c", "?", "q">>,
    <<"g", ".", "c", ":", "8">>,
    <<"g", " ", "c">>,
    <<"h", "t", "t", "p", "s", ":", "/", "/", "g", ".", "c", "/", "r">>,
    <<"h", "t", "t", "p", "s", ":", "/", "/", "g", ".", "c", ":", "4", "4", "3">>,
    <<"h", "t", "t", "p", ":", "/", "/", "g", ".", "c", ":", "8", "/", "r">>,
    <<"h", "t", "t", "p", "b", ".", "c", "/", "x">>
}

Statuses == {200, 201, 401, 403, 404, 500}

\* response.ok
ok(status) == status >= 200 /\ status <= 299

XSSI == <<")", "]", "}", "'">>

V27 == <<"\"", "2", ".", "7", "\"">>

Bodies == {
    <<>>,
    <<" ", "\n">>,
    XSSI,
    XSSI \o <<"\n">>,
    XSSI \o <<"\n">> \o V27,
    XSSI \o <<"\n", "\n">> \o V27 \o <<"\n">>,
    <<" ">> \o XSSI \o <<"\n">> \o V27,
    V27,
    <<"\n">> \o V27 \o <<" ">>,
    XSSI \o <<"\n", "{", "}">>,
    XSSI \o <<"\n", "4", "2">>,
    <<"4", "2">>,
    <<"t", "r", "u", "e">>,
    <<"n", "u", "l", "l">>,
    <<"{", "}">>,
    <<"[", "]">>,
    GerritVersionKey \o <<"\"", "3", "\"", "}">>,
    GerritVersionKey \o <<"\"", "\"", "}">>,
    GerritVersionKey \o <<"0", "}">>,
    <<"<", "h", ">">>
}

NoError == [name |-> "", message |-> <<>>]

\* what fetch() or response.text() rejects with while the signal is not aborted
TransportErrors == {
    [name |-> "TypeError", message |-> <<"fetch", "failed">>],
    [name |-> "Error", message |-> <<"connect", "ECONNREFUSED">>],
    [name |-> "Error", message |-> <<"getaddrinfo", "ENOTFOUND">>],
    [name |-> "Error", message |-> <<"connect", "ETIMEDOUT">>],
    [name |-> "Error", message |-> <<"socket", "hang", "up">>],
    [name |-> "Error", message |-> <<"socket", "timeout">>]
}

\* what they reject with once controller.abort() has run: the name is AbortError,
\* the wording is the fetch implementation's
AbortErrors == {
    [name |-> "AbortError", message |-> <<"This", "operation", "was", "aborted">>],
    [name |-> "AbortError", message |-> <<"The", "user", "aborted", "a", "request.">>],
    [name |-> "AbortError", message |-> <<"Aborted">>]
}

-----------------------------------------------------------------------------
(* Responses (NextResponse.json): status and the fields of the body        *)

NoResponse == [status |-> 0, body |-> [none |-> TRUE]]

Words(text) == [text |-> text, status |-> 0]

HttpReason(status) == [text |-> "HTTP", status |-> status]

Json(body) == [status |-> 200, body |-> body]

BadRequest(text) == [status |-> 400, body |-> [error |-> text]]

\* the request bodies: an object whose url is a string (the variable url), an object
\* without url, an object whose url is a number, a JSON number/string/array, JSON
\* null, and text that is not JSON
BodyKinds == {"urlString", "urlMissing", "urlNotString", "scalar", "null", "notJson"}

\* const body = await request.json() rejects with a SyntaxError
requestJsonThrows == bodyKind = "notJson"

\* const { url } = body throws a TypeError: null cannot be destructured
destructureThrows == bodyKind = "null"

\* !(!url || typeof url !== 'string'); a number, string or array has no url property
urlIsNonEmptyString == bodyKind = "urlString" /\ url # <<>>

\* the message of the error thrown on the way to the outer catch
thrownMessage ==
    IF requestJsonThrows THEN <<"Unexpected", "token", "in", "JSON">>
    ELSE <<"Cannot", "destructure", "property", "url", "of", "body", "as", "it", "is", "null">>

\* the outer catch: { error: 'Internal Server Error', details: error.message }, status 500
InternalServerError ==
    [status |-> 500, body |-> [error |-> "Internal Server Error", details |-> thrownMessage]]

\* endpointsToTry with the /a/ variant first
endpointsToTry_PrefixedFirst(base) ==
    << [base |-> base, path |-> "/a/config/server/version"],
       [base |-> base, path |-> "/config/server/version"] >>

\* const endpointsToTry = [`${baseUrl}/config/server/version`, `${baseUrl}/a/config/server/version`]
endpointsToTry(base) ==
    << [base |-> base, path |-> "/config/server/version"],
       [base |-> base, path |-> "/a/config/server/version"] >>

\* endpointsToTry.indexOf(versionEndpoint) < endpointsToTry.length - 1
HasNext == idx < Len(endpointsToTry(baseUrl))

Outcome(kind, status, text, err) ==
    [cand |-> idx, kind |-> kind, status |-> status, text |-> text, err |-> err,
     aborted |-> aborted]

-----------------------------------------------------------------------------
(* Control flow shared by the steps of the handlers                        *)

\* return NextResponse.json(...), after clearTimeout(timeoutId)
Return(r) ==
    /\ pc' = "done"
    /\ response' = r
    /\ timerArmed' = FALSE
    /\ upstream' = 0
    /\ UNCHANGED <<idx, fetchCalls>>

\* return NextResponse.json(...) on a path that leaves the timer as it is
ReturnKeepTimer(r) ==
    /\ pc' = "done"
    /\ response' = r
    /\ upstream' = 0
    /\ UNCHANGED <<idx, fetchCalls, timerArmed>>

\* the response after the loop of route.ts
CouldNotVerify ==
    Json([isGerrit |-> FALSE, reason |-> Words("Could not verify Gerrit server"),
          details |-> IF lastError' # NoError THEN lastError'.message
                      ELSE <<"All", "endpoints", "failed">>])

\* the end of an iteration of for (const versionEndpoint of endpointsToTry): the
\* next candidate is fetched, or the loop is left
Continue ==
    IF HasNext
    THEN /\ idx' = idx + 1
         /\ fetchCalls' = Append(fetchCalls, [cand |-> idx + 1,
                                               endpoint |-> endpointsToTry(baseUrl)[idx + 1],
                                               aborted |-> aborted])
         /\ pc' = "fetch"
         /\ upstream' = 0
         /\ UNCHANGED <<response, timerArmed>>
    ELSE Return(CouldNotVerify)

-----------------------------------------------------------------------------
(* POST of route.ts                                                        *)

\* lines 95-104
cleanedText(text) ==
    IF startsWith(text, XSSI) THEN trimStart(slice(text, 4)) ELSE trim(text)

\* lines 10-56: validation, baseUrl, the timer, the first fetch
POST_Start ==
    /\ handler = "route"
    /\ pc = "start"
    /\ LET u == URL(normalizedInput(url))
       IN  IF requestJsonThrows \/ destructureThrows
           THEN /\ ReturnKeepTimer(InternalServerError)
                /\ UNCHANGED baseUrl
           ELSE IF ~urlIsNonEmptyString
           THEN /\ ReturnKeepTimer(BadRequest("URL is required"))
                /\ UNCHANGED baseUrl
           ELSE IF ~u.ok
           THEN /\ ReturnKeepTimer(BadRequest("Invalid URL format"))
                /\ UNCHANGED baseUrl
           ELSE /\ baseUrl' = Origin(u)
                /\ timerArmed' = TRUE
                /\ idx' = 1
                /\ fetchCalls' = <<[cand |-> 1, endpoint |-> endpointsToTry(Origin(u))[1],
                                     aborted |-> FALSE]>>
                /\ pc' = "fetch"
                /\ UNCHANGED <<response, upstream>>
    /\ UNCHANGED <<reqBody, forwarded, backend>>
    /\ UNCHANGED formVars
    /\ UNCHANGED verified
    /\ UNCHANGED <<handler, url, bodyKind, aborted, lastError, tried, nreq>>

\* NotOk without the fallback: every non-2xx status is answered at once
NotOk_NoFallback(status) ==
    Return(Json([isGerrit |-> FALSE, reason |-> HttpReason(status),
                 triedEndpoints |-> endpointsToTry(baseUrl)]))

\* NotOk going on only after 403 and 404
NotOk_Only403And404(status) ==
    IF (status = 404 \/ status = 403) /\ HasNext THEN Continue
    ELSE Return(Json([isGerrit |-> FALSE, reason |-> HttpReason(status),
                      triedEndpoints |-> endpointsToTry(baseUrl)]))

\* lines 58-75: a non-2xx status
NotOk(status) ==
    IF (status = 404 \/ status = 403) /\ HasNext THEN Continue
    ELSE IF HasNext THEN Continue
    ELSE Return(Json([isGerrit |-> FALSE, reason |-> HttpReason(status),
                      triedEndpoints |-> endpointsToTry(baseUrl)]))

\* lines 50-78: fetch resolves with a response
POST_FetchResolved(status) ==
    /\ handler = "route"
    /\ pc = "fetch"
    /\ ~aborted
    /\ UNCHANGED <<reqBody, forwarded, backend>>
    /\ UNCHANGED formVars
    /\ UNCHANGED verified
    /\ UNCHANGED <<handler, url, bodyKind, baseUrl, aborted, lastError, nreq>>
    /\ IF ~ok(status)
       THEN /\ NotOk(status)
            /\ tried' = Append(tried, Outcome("status", status, <<>>, NoError))
       ELSE /\ pc' = "text"
            /\ upstream' = status
            /\ UNCHANGED <<idx, fetchCalls, response, timerArmed, tried>>

\* lines 126-149: the parsed value
Parsed(data) ==
    IF isValid(data)
    THEN Return(Json([isGerrit |-> TRUE, version |-> versionOf(data)]))
    ELSE IF HasNext THEN Continue
    ELSE Return(Json([isGerrit |-> FALSE,
                      reason |-> Words("Response format is not a valid Gerrit version"),
                      details |-> <<"Expected", "string", "or", "object,", "got:", typeof(data)>>]))

\* lines 150-166: JSON.parse threw
ParseFailed(cleaned) ==
    IF HasNext THEN Continue
    ELSE Return(Json([isGerrit |-> FALSE, reason |-> Words("Failed to parse as JSON"),
                      details |-> <<"SyntaxError">>, responseText |-> cleaned]))

\* Body without the test for an empty body of lines 80-89
Body_NoEmptyCheck(text) ==
    LET cleaned == cleanedText(text)
        data == JSONparse(cleaned)
    IN  IF cleaned = <<>>
        THEN IF HasNext THEN Continue
             ELSE Return(Json([isGerrit |-> FALSE,
                               reason |-> Words("No content after removing XSSI prefix")]))
        ELSE IF data.type = "error" THEN ParseFailed(cleaned)
        ELSE Parsed(data)

\* lines 78-166: response.text() resolves with the body
Body(text) ==
    LET cleaned == cleanedText(text)
        data == JSONparse(cleaned)
    IN  IF text = <<>> \/ trim(text) = <<>>
        THEN IF HasNext THEN Continue
             ELSE Return(Json([isGerrit |-> FALSE, reason |-> Words("Empty response")]))
        ELSE IF cleaned = <<>>
        THEN IF HasNext THEN Continue
             ELSE Return(Json([isGerrit |-> FALSE,
                               reason |-> Words("No content after removing XSSI prefix")]))
        ELSE IF data.type = "error" THEN ParseFailed(cleaned)
        ELSE Parsed(data)

POST_TextResolved(text) ==
    /\ handler = "route"
    /\ pc = "text"
    /\ ~aborted
    /\ UNCHANGED <<reqBody, forwarded, backend>>
    /\ UNCHANGED formVars
    /\ UNCHANGED verified
    /\ UNCHANGED <<handler, url, bodyKind, baseUrl, aborted, lastError, nreq>>
    /\ Body(text)
    /\ tried' = Append(tried, Outcome("body", upstream, text, NoError))

\* lines 175-180
isNetworkError(err) ==
    \/ includes(err.message, <<"fetch", "failed">>)
    \/ includes(err.message, <<"ECONNREFUSED">>)
    \/ includes(err.message, <<"ENOTFOUND">>)
    \/ includes(err.message, <<"ETIMEDOUT">>)
    \/ err.name = "TypeError"
    \/ err.name = "NetworkError"

\* errorMessage.includes('aborted') || errorMessage.includes('timeout')
isTimeoutMessage(err) ==
    includes(err.message, <<"aborted">>) \/ includes(err.message, <<"timeout">>)

\* the catch block going on only after a network error
Caught_OnlyNetworkErrors(err) ==
    IF isNetworkError(err) /\ HasNext THEN Continue
    ELSE IF isTimeoutMessage(err)
    THEN Return(Json([isGerrit |-> FALSE, reason |-> Words("Request timeout"),
                      triedEndpoints |-> endpointsToTry(baseUrl), error |-> err.message]))
    ELSE Return(Json([isGerrit |-> FALSE,
                      reason |-> IF isNetworkError(err)
                                 THEN Words("Network connection failed. The server may be unreachable, require authentication, or the endpoint may not exist.")
                                 ELSE Words("Network error"),
                      details |-> err.message, errorName |-> err.name,
                      triedEndpoints |-> endpointsToTry(baseUrl)]))

\* the catch block reporting lastError as it was before this error, when there was one
Caught_StaleLastError(err) ==
    LET e == IF lastError # NoError THEN lastError ELSE err
    IN  IF isNetworkError(err) /\ HasNext THEN Continue
        ELSE IF ~isTimeoutMessage(err) /\ HasNext THEN Continue
        ELSE IF isTimeoutMessage(err)
        THEN Return(Json([isGerrit |-> FALSE, reason |-> Words("Request timeout"),
                          triedEndpoints |-> endpointsToTry(baseUrl), error |-> e.message]))
        ELSE Return(Json([isGerrit |-> FALSE,
                          reason |-> IF isNetworkError(e)
                                     THEN Words("Network connection failed. The server may be unreachable, require authentication, or the endpoint may not exist.")
                                     ELSE Words("Network error"),
                          details |-> e.message, errorName |-> e.name,
                          triedEndpoints |-> endpointsToTry(baseUrl)]))

\* Caught without the return of lines 208-219: the last candidate's error leaves the loop
Caught_NoLastReturn(err) ==
    IF isNetworkError(err) /\ HasNext THEN Continue
    ELSE IF ~isTimeoutMessage(err) /\ HasNext THEN Continue
    ELSE IF isTimeoutMessage(err)
    THEN Return(Json([isGerrit |-> FALSE, reason |-> Words("Request timeout"),
                      triedEndpoints |-> endpointsToTry(baseUrl), error |-> err.message]))
    ELSE Continue

\* lines 167-220: the catch block
Caught(err) ==
    IF isNetworkError(err) /\ HasNext THEN Continue
    ELSE IF ~isTimeoutMessage(err) /\ HasNext THEN Continue
    ELSE IF isTimeoutMessage(err)
    THEN Return(Json([isGerrit |-> FALSE, reason |-> Words("Request timeout"),
                      triedEndpoints |-> endpointsToTry(baseUrl), error |-> err.message]))
    ELSE IF ~HasNext
    THEN Return(Json([isGerrit |-> FALSE,
                      reason |-> IF isNetworkError(err)
                                 THEN Words("Network connection failed. The server may be unreachable, require authentication, or the endpoint may not exist.")
                                 ELSE Words("Network error"),
                      details |-> err.message, errorName |-> err.name,
                      triedEndpoints |-> endpointsToTry(baseUrl)]))
    ELSE Continue

\* what a pending fetch() or response.text() rejects with
Rejections == IF aborted THEN AbortErrors ELSE TransportErrors

\* lines 167-220: fetch or response.text() rejects
POST_Rejected(err) ==
    /\ handler = "route"
    /\ pc \in {"fetch", "text"}
    /\ err \in Rejections
    /\ lastError' = err
    /\ Caught(err)
    /\ tried' = Append(tried, Outcome("error", upstream, <<>>, err))
    /\ UNCHANGED <<reqBody, forwarded, backend>>
    /\ UNCHANGED formVars
    /\ UNCHANGED verified
    /\ UNCHANGED <<handler, url, bodyKind, baseUrl, aborted, nreq>>

\* line 43: setTimeout(() => controller.abort(), 10000), while the handler awaits
TimeoutFires ==
    /\ timerArmed
    /\ pc \in {"fetch", "text"}
    /\ aborted' = TRUE
    /\ timerArmed' = FALSE
    /\ UNCHANGED <<reqBody, forwarded, backend>>
    /\ UNCHANGED formVars
    /\ UNCHANGED verified
    /\ UNCHANGED <<handler, url, bodyKind, pc, idx, baseUrl, fetchCalls, upstream, lastError,
                   response, tried, nreq>>

-----------------------------------------------------------------------------
(* POST of part_000: one endpoint                                          *)

\* lines 69-73
cleanedTextPart000(text) ==
    LET t == trim(text)
    IN  IF startsWith(t, XSSI) THEN trim(slice(t, 4)) ELSE t

\* line 34: const versionEndpoint = `${baseUrl}/config/server/version`
versionEndpoint(base) == [base |-> base, path |-> "/config/server/version"]

\* lines 10-48: validation, baseUrl, the timer, the fetch
Part000_Start ==
    /\ handler = "part_000"
    /\ pc = "start"
    /\ LET u == URL(normalizedInput(url))
       IN  IF requestJsonThrows \/ destructureThrows
           THEN /\ ReturnKeepTimer(InternalServerError)
                /\ UNCHANGED baseUrl
           ELSE IF ~urlIsNonEmptyString
           THEN /\ ReturnKeepTimer(BadRequest("URL is required"))
                /\ UNCHANGED baseUrl
           ELSE IF ~u.ok
           THEN /\ ReturnKeepTimer(BadRequest("Invalid URL format"))
                /\ UNCHANGED baseUrl
           ELSE /\ baseUrl' = Origin(u)
                /\ timerArmed' = TRUE
                /\ idx' = 1
                /\ fetchCalls' = <<[cand |-> 1, endpoint |-> versionEndpoint(Origin(u)),
                                     aborted |-> FALSE]>>
                /\ pc' = "fetch"
                /\ UNCHANGED <<response, upstream>>
    /\ UNCHANGED <<reqBody, forwarded, backend>>
    /\ UNCHANGED formVars
    /\ UNCHANGED verified
    /\ UNCHANGED <<handler, url, bodyKind, aborted, lastError, tried, nreq>>

\* lines 50-59: fetch resolves; clearTimeout, then the status
Part000_FetchResolved(status) ==
    /\ handler = "part_000"
    /\ pc = "fetch"
    /\ ~aborted
    /\ IF ~ok(status)
       THEN /\ Return(Json([isGerrit |-> FALSE, reason |-> HttpReason(status)]))
            /\ tried' = Append(tried, Outcome("status", status, <<>>, NoError))
       ELSE /\ pc' = "text"
            /\ upstream' = status
            /\ timerArmed' = FALSE
            /\ UNCHANGED <<idx, fetchCalls, response, tried>>
    /\ UNCHANGED <<reqBody, forwarded, backend>>
    /\ UNCHANGED formVars
    /\ UNCHANGED verified
    /\ UNCHANGED <<handler, url, bodyKind, baseUrl, aborted, lastError, nreq>>

\* lines 83-101: JSON.parse and the answer; reading null.gerrit_version throws a
\* TypeError inside the try
Part000_Parsed(cleaned) ==
    LET data == JSONparse(cleaned)
    IN  IF data.type = "error"
        THEN Json([isGerrit |-> FALSE, reason |-> Words("Failed to parse as JSON"),
                   details |-> <<"SyntaxError">>])
        ELSE IF data.type = "null"
        THEN Json([isGerrit |-> FALSE, reason |-> Words("Failed to parse as JSON"),
                   details |-> <<"Cannot", "read", "properties", "of", "null">>])
        ELSE Json([isGerrit |-> isValid(data), version |-> versionOf(data)])

\* lines 59-101: response.text() resolves with the body
Part000_Body(text) ==
    LET cleaned == cleanedTextPart000(text)
    IN  IF text = <<>> \/ trim(text) = <<>>
        THEN Json([isGerrit |-> FALSE, reason |-> Words("Empty response")])
        ELSE IF cleaned = <<>>
        THEN Json([isGerrit |-> FALSE,
                   reason |-> Words("No content after removing XSSI prefix")])
        ELSE Part000_Parsed(cleaned)

Part000_TextResolved(text) ==
    /\ handler = "part_000"
    /\ pc = "text"
    /\ ~aborted
    /\ ReturnKeepTimer(Part000_Body(text))
    /\ tried' = Append(tried, Outcome("body", upstream, text, NoError))
    /\ UNCHANGED <<reqBody, forwarded, backend>>
    /\ UNCHANGED formVars
    /\ UNCHANGED verified
    /\ UNCHANGED <<handler, url, bodyKind, baseUrl, aborted, lastError, nreq>>

\* lines 102-121: the catch block
Part000_Caught(err) ==
    IF isTimeoutMessage(err)
    THEN Json([isGerrit |-> FALSE, reason |-> Words("Request timeout")])
    ELSE Json([isGerrit |-> FALSE, reason |-> Words("Network error"),
               details |-> err.message])

Part000_Rejected(err) ==
    /\ handler = "part_000"
    /\ pc \in {"fetch", "text"}
    /\ err \in Rejections
    /\ Return(Part000_Caught(err))
    /\ tried' = Append(tried, Outcome("error", upstream, <<>>, err))
    /\ UNCHANGED <<reqBody, forwarded, backend>>
    /\ UNCHANGED formVars
    /\ UNCHANGED verified
    /\ UNCHANGED <<handler, url, bodyKind, baseUrl, aborted, lastError, nreq>>

-----------------------------------------------------------------------------
(* extractUrlDomain of part_001, called on the same inputs                 *)

ExtractUrlDomain ==
    /\ handler = "extractUrlDomain"
    /\ pc = "start"
    /\ pc' = "done"
    /\ response' = [status |-> 0, body |-> [domain |-> extractUrlDomain(url)]]
    /\ UNCHANGED <<reqBody, forwarded, backend>>
    /\ UNCHANGED formVars
    /\ UNCHANGED verified
    /\ UNCHANGED <<handler, url, bodyKind, idx, baseUrl, timerArmed, aborted, fetchCalls,
                   upstream, lastError, tried, nreq>>

-----------------------------------------------------------------------------
(* verifyGerritProject of part_001, the caller of POST /api/gerrit/verify  *)

\* lines 40-48 with response.ok as the result
verifyGerritProject_AnyOk(resp) ==
    IF resp = NoResponse THEN "false"
    ELSE IF ok(resp.status) THEN "true" ELSE "false"

\* lines 32-48, the body of the try: fetch rejects (NoResponse) and the error is
\* thrown, or the status and data.isGerrit === true decide
tryVerify(resp) ==
    IF resp = NoResponse THEN "throws"
    ELSE IF ~ok(resp.status) THEN "false"
    ELSE IF "isGerrit" \in DOMAIN resp.body /\ resp.body.isGerrit = TRUE THEN "true"
    ELSE "false"

\* lines 29-55: what the promise resolves to; the catch of lines 49-54 returns false
verifyGerritProject(resp) ==
    IF tryVerify(resp) = "throws" THEN "false" ELSE tryVerify(resp)

\* lines 32-48: the handler answered the request { url: input }
VerifyGerritProject_Answered ==
    /\ handler \in {"route", "part_000"}
    /\ bodyKind = "urlString"
    /\ pc = "done"
    /\ verified = "pending"
    /\ verified' = verifyGerritProject(response)
    /\ UNCHANGED <<handler, url, bodyKind, pc, idx, baseUrl, timerArmed, aborted, fetchCalls,
                   upstream, lastError, response, tried, nreq, reqBody, forwarded, backend>>
    /\ UNCHANGED formVars

\* lines 32, 49-54: the fetch of /api/gerrit/verify rejected, no handler ran
VerifyGerritProject_FetchFailed ==
    /\ handler \in {"route", "part_000"}
    /\ bodyKind = "urlString"
    /\ pc = "start"
    /\ verified = "pending"
    /\ pc' = "lost"
    /\ verified' = verifyGerritProject(NoResponse)
    /\ UNCHANGED <<handler, url, bodyKind, idx, baseUrl, timerArmed, aborted, fetchCalls,
                   upstream, lastError, response, tried, nreq, reqBody, forwarded, backend>>
    /\ UNCHANGED formVars

-----------------------------------------------------------------------------
(* The proxy handlers: litellm/test-connection/route.ts and                *)
(* gerrit/structure/route.ts                                               *)

NoBody == [none |-> TRUE]

NotForwarded == [none |-> TRUE]

\* the JSON objects sent to litellm/test-connection
TestConnectionBodies ==
    { [api_key |-> "k", base_url |-> "b"],
      [api_key |-> "k", base_url |-> "b", model |-> "m"],
      [api_key |-> "k"] }

\* the JSON objects sent to gerrit/structure; "" is the empty string
StructureBodies ==
    { [repo_url |-> "r", gerrit_user |-> "u", token |-> "t"],
      [repo_url |-> "r"],
      [repo_url |-> "r", gerrit_user |-> "u", token |-> "t", branch |-> "m"],
      [repo_url |-> "", token |-> "t"],
      [gerrit_user |-> "u", token |-> "t"] }

\* what the backend can do with the fetch: nothing yet, no answer at all (fetch
\* rejects), or an answer with a status and a body that is a JSON object or other text
NoAnswer == [kind |-> "none", status |-> 0, json |-> FALSE, body |-> [none |-> TRUE]]

Unreachable == [kind |-> "unreachable", status |-> 0, json |-> FALSE, body |-> [none |-> TRUE]]

BackendStatuses == {200, 201, 400, 503}

BackendJson ==
    { [success |-> TRUE, message |-> "ok"],
      [success |-> FALSE, message |-> "bad key"],
      [error |-> "down"],
      [detail |-> "x"] }

BackendText == { [text |-> "<html>"], [text |-> ""] }

BackendAnswers ==
    [kind : {"answer"}, status : BackendStatuses, json : {TRUE}, body : BackendJson]
    \cup [kind : {"answer"}, status : BackendStatuses, json : {FALSE}, body : BackendText]

\* the message of the error fetch() rejects with
FetchFailed == "fetch failed"

\* the message of the SyntaxError of response.json() on a body that is not JSON
JsonSyntaxError == "Unexpected token in JSON"

\* the properties of body named by fields, as JSON.stringify writes them: a property
\* that is undefined is left out
Pick(body, fields) == [f \in DOMAIN body \cap fields |-> body[f]]

\* test-connection lines 33-42: { success: false, message: error.message }, status 500
TestConnection_Caught(message) ==
    [status |-> 500, body |-> [success |-> FALSE, message |-> message]]

\* test-connection lines 22-28 with the error of backendResponse.json() left to the
\* catch of line 33
TestConnection_NotOk_Rethrows(ans) ==
    IF ans.json THEN [status |-> ans.status, body |-> ans.body]
    ELSE TestConnection_Caught(JsonSyntaxError)

\* test-connection lines 22-28: errorData is the JSON body, or { error: 'Unknown error' }
TestConnection_NotOk(ans) ==
    [status |-> ans.status,
     body |-> IF ans.json THEN ans.body ELSE [error |-> "Unknown error"]]

\* test-connection lines 31-32: NextResponse.json(result), status 200 by default
TestConnection_Ok(ans) ==
    IF ans.json THEN Json(ans.body) ELSE TestConnection_Caught(JsonSyntaxError)

\* test-connection lines 7-19: the body is read and sent on as it is
TestConnection_Start ==
    /\ handler = "test-connection"
    /\ pc = "start"
    /\ IF requestJsonThrows
       THEN /\ ReturnKeepTimer(TestConnection_Caught(JsonSyntaxError))
            /\ UNCHANGED forwarded
       ELSE /\ forwarded' = reqBody
            /\ pc' = "backend"
            /\ UNCHANGED <<response, upstream, idx, fetchCalls, timerArmed>>
    /\ UNCHANGED formVars
    /\ UNCHANGED verified
    /\ UNCHANGED <<handler, url, bodyKind, baseUrl, aborted, lastError, tried, nreq,
                   reqBody, backend>>

\* test-connection lines 21-32: the backend answered
TestConnection_Answered(ans) ==
    /\ handler = "test-connection"
    /\ pc = "backend"
    /\ backend' = ans
    /\ ReturnKeepTimer(IF ok(ans.status) THEN TestConnection_Ok(ans)
                       ELSE TestConnection_NotOk(ans))
    /\ UNCHANGED formVars
    /\ UNCHANGED verified
    /\ UNCHANGED <<handler, url, bodyKind, baseUrl, aborted, lastError, tried, nreq,
                   reqBody, forwarded>>

\* test-connection lines 12, 33-42: fetch rejects
TestConnection_Unreachable ==
    /\ handler = "test-connection"
    /\ pc = "backend"
    /\ backend' = Unreachable
    /\ ReturnKeepTimer(TestConnection_Caught(FetchFailed))
    /\ UNCHANGED formVars
    /\ UNCHANGED verified
    /\ UNCHANGED <<handler, url, bodyKind, baseUrl, aborted, lastError, tried, nreq,
                   reqBody, forwarded>>

\* structure lines 49-55
Structure_Caught ==
    [status |-> 500,
     body |-> [error |-> "Internal Server Error during Gerrit structure retrieval"]]

\* structure lines 29-33 without the token
structureBody_NoToken(body) == Pick(body, {"repo_url", "gerrit_user"})

\* structure lines 13, 29-33: JSON.stringify({ repo_url, gerrit_user, token })
structureBody(body) == Pick(body, {"repo_url", "gerrit_user", "token"})

\* structure line 15: !repo_url
NoRepoUrl(body) == "repo_url" \notin DOMAIN body \/ body.repo_url = ""

\* structure lines 36-45: errorBody is the parsed text, or { error: errorText }
Structure_NotOk(ans) ==
    [status |-> ans.status,
     body |-> IF ans.json THEN ans.body ELSE [error |-> ans.body.text]]

\* structure lines 47-48: NextResponse.json(data), status 200 by default
Structure_Ok(ans) ==
    IF ans.json THEN Json(ans.body) ELSE Structure_Caught

\* structure lines 12-34: the three properties are read and sent on
Structure_Start ==
    /\ handler = "structure"
    /\ pc = "start"
    /\ IF requestJsonThrows
       THEN /\ ReturnKeepTimer(Structure_Caught)
            /\ UNCHANGED forwarded
       ELSE IF NoRepoUrl(reqBody)
       THEN /\ ReturnKeepTimer(BadRequest("Repository URL is required"))
            /\ UNCHANGED forwarded
       ELSE /\ forwarded' = structureBody(reqBody)
            /\ pc' = "backend"
            /\ UNCHANGED <<response, upstream, idx, fetchCalls, timerArmed>>
    /\ UNCHANGED formVars
    /\ UNCHANGED verified
    /\ UNCHANGED <<handler, url, bodyKind, baseUrl, aborted, lastError, tried, nreq,
                   reqBody, backend>>

\* structure lines 36-48: the backend answered
Structure_Answered(ans) ==
    /\ handler = "structure"
    /\ pc = "backend"
    /\ backend' = ans
    /\ ReturnKeepTimer(IF ok(ans.status) THEN Structure_Ok(ans) ELSE Structure_NotOk(ans))
    /\ UNCHANGED formVars
    /\ UNCHANGED verified
    /\ UNCHANGED <<handler, url, bodyKind, baseUrl, aborted, lastError, tried, nreq,
                   reqBody, forwarded>>

\* structure lines 24, 49-55: fetch rejects
Structure_Unreachable ==
    /\ handler = "structure"
    /\ pc = "backend"
    /\ backend' = Unreachable
    /\ ReturnKeepTimer(Structure_Caught)
    /\ UNCHANGED formVars
    /\ UNCHANGED verified
    /\ UNCHANGED <<handler, url, bodyKind, baseUrl, aborted, lastError, tried, nreq,
                   reqBody, forwarded>>

-----------------------------------------------------------------------------
(* The form: src/src/components/UserSelector.tsx.  State updates made in   *)
(* one event handler or one continuation of an async function are applied  *)
(* together (React 18), and an effect whose dependencies changed runs in   *)
(* the step that changed them.                                             *)

\* modelConfig while it is null
NoConfig == [providers |-> <<>>, defaultProvider |-> ""]

\* the answer of /api/models/config
Catalog ==
    [providers |->
        << [id |-> "google", models |-> <<"g1", "g2">>, supportsCustomModel |-> TRUE],
           [id |-> "litellm", models |-> <<"l1">>, supportsCustomModel |-> FALSE] >>,
     defaultProvider |-> "google"]

\* what Array.prototype.find returns when no provider has the id
NoProvider == [id |-> "", models |-> <<>>, supportsCustomModel |-> FALSE]

\* config.providers.find(p => p.id === id), NoProvider for undefined
find(config, id) ==
    IF \E i \in 1..Len(config.providers) : config.providers[i].id = id
    THEN config.providers[CHOOSE i \in 1..Len(config.providers) :
                             /\ config.providers[i].id = id
                             /\ \A j \in 1..(i - 1) : config.providers[j].id # id]
    ELSE NoProvider

\* the ids of selectedProvider.models
ModelsOf(config, id) ==
    { find(config, id).models[i] : i \in 1..Len(find(config, id).models) }

\* lines 142-145, 166-169: selectedProvider.models[0].id when there is one, else
\* the model stays
FirstModelOr(config, id, current) ==
    IF find(config, id).models # <<>> THEN find(config, id).models[1] ELSE current

\* the text typed into the custom model input
CustomTexts == {"x", ""}

\* seq without its i-th element
Remove(seq, i) == SubSeq(seq, 1, i - 1) \o SubSeq(seq, i + 1, Len(seq))

LoadFailed == "Failed to load model configurations. Using default options."

\* the props the parent mounts the form with
MountProps ==
    { [provider |-> "", model |-> ""],
      [provider |-> "google", model |-> "g1"],
      [provider |-> "litellm", model |-> "l1"] }

\* lines 121-126, run by the effect of lines 120-155 on mount and whenever provider
\* changed: setIsLoading(true), setError(null), fetch('/api/models/config')
fetchModelConfig(p) ==
    /\ isLoading' = TRUE
    /\ error' = ""
    /\ configFetches' = Append(configFetches, p)
    /\ nfetch' = nfetch + 1

\* lines 121-126 for a fetch started while fetch i is running: fetch i is over
fetchModelConfigAfter(i, p) ==
    /\ isLoading' = TRUE
    /\ error' = ""
    /\ configFetches' = Append(Remove(configFetches, i), p)
    /\ nfetch' = nfetch + 1

\* lines 128-151: fetch i resolved with a 2xx answer and JSON data
ConfigFetchResolved(i, data) ==
    /\ i \in 1..Len(configFetches)
    /\ modelConfig' = data
    /\ wasReady' = TRUE
    /\ lastEvent' = "configResolved"
    /\ IF configFetches[i] = "" /\ data.defaultProvider # ""
       THEN /\ provider' = data.defaultProvider
            /\ model' = FirstModelOr(data, data.defaultProvider, model)
            /\ IF data.defaultProvider # provider
               THEN fetchModelConfigAfter(i, data.defaultProvider)
               ELSE /\ isLoading' = FALSE
                    /\ configFetches' = Remove(configFetches, i)
                    /\ UNCHANGED <<error, nfetch>>
       ELSE /\ isLoading' = FALSE
            /\ configFetches' = Remove(configFetches, i)
            /\ UNCHANGED <<provider, model, error, nfetch>>
    /\ UNCHANGED <<isCustomModel, customModel, timeouts>>
    /\ UNCHANGED litellmVars
    /\ UNCHANGED handlerVars

\* lines 128-131, 146-151: fetch i rejected, or the answer was not 2xx or not JSON
ConfigFetchFailed(i) ==
    /\ i \in 1..Len(configFetches)
    /\ error' = LoadFailed
    /\ isLoading' = FALSE
    /\ configFetches' = Remove(configFetches, i)
    /\ wasReady' = TRUE
    /\ lastEvent' = "configFailed"
    /\ UNCHANGED <<provider, model, isCustomModel, customModel, modelConfig, timeouts, nfetch>>
    /\ UNCHANGED litellmVars
    /\ UNCHANGED handlerVars

\* lines 51-54, 120-155: the parent renders the form with another provider and a model
\* of that provider; the effect runs for it, whatever fetch is still in flight
ProviderPropChange(newProvider) ==
    /\ newProvider # provider
    /\ nfetch < MaxFetches
    /\ provider' = newProvider
    /\ model' = FirstModelOr(Catalog, newProvider, model)
    /\ fetchModelConfig(newProvider)
    /\ lastEvent' = "providerPropChange"
    /\ UNCHANGED <<isCustomModel, customModel, modelConfig, timeouts, wasReady>>
    /\ UNCHANGED litellmVars
    /\ UNCHANGED handlerVars

\* lines 157-172, 322-326: the provider select changed; the callback is queued and
\* the effect of lines 120-155 runs for the new provider
handleProviderChange(newProvider) ==
    /\ ~isLoading
    /\ find(modelConfig, newProvider) # NoProvider
    /\ newProvider # provider
    /\ nfetch < MaxFetches
    /\ Len(timeouts) < MaxPending
    /\ provider' = newProvider
    /\ timeouts' = Append(timeouts, [newProvider |-> newProvider, modelConfig |-> modelConfig])
    /\ fetchModelConfig(newProvider)
    /\ lastEvent' = "selectProvider"
    /\ UNCHANGED <<model, isCustomModel, customModel, modelConfig, wasReady>>
    /\ UNCHANGED litellmVars
    /\ UNCHANGED handlerVars

\* lines 159-171: the callback of setTimeout runs, with the modelConfig of its closure
ProviderChangeTimeout ==
    /\ timeouts # <<>>
    /\ isCustomModel' = FALSE
    /\ model' = FirstModelOr(Head(timeouts).modelConfig, Head(timeouts).newProvider, model)
    /\ timeouts' = Tail(timeouts)
    /\ lastEvent' = "timeout"
    /\ UNCHANGED <<provider, customModel, modelConfig, isLoading, error, configFetches,
                   nfetch, wasReady>>
    /\ UNCHANGED litellmVars
    /\ UNCHANGED handlerVars

\* lines 365-376: the model select changed
SelectModel(m) ==
    /\ ~isLoading
    /\ ~isCustomModel
    /\ provider # ""
    /\ m \in ModelsOf(modelConfig, provider)
    /\ m # model
    /\ model' = m
    /\ lastEvent' = "selectModel"
    /\ UNCHANGED <<provider, isCustomModel, customModel, modelConfig, isLoading, error,
                   configFetches, timeouts, nfetch, wasReady>>
    /\ UNCHANGED litellmVars
    /\ UNCHANGED handlerVars

\* lines 381-391: the custom model toggle was clicked
ToggleCustomModel ==
    /\ ~isLoading
    /\ find(modelConfig, provider).supportsCustomModel
    /\ isCustomModel' = ~isCustomModel
    /\ customModel' = IF ~isCustomModel THEN model ELSE customModel
    /\ lastEvent' = "toggleCustomModel"
    /\ UNCHANGED <<provider, model, modelConfig, isLoading, error, configFetches, timeouts,
                   nfetch, wasReady>>
    /\ UNCHANGED litellmVars
    /\ UNCHANGED handlerVars

\* lines 351-362: the custom model input changed
EditCustomModel(text) ==
    /\ ~isLoading
    /\ isCustomModel
    /\ text # customModel
    /\ customModel' = text
    /\ model' = text
    /\ lastEvent' = "editCustomModel"
    /\ UNCHANGED <<provider, isCustomModel, modelConfig, isLoading, error, configFetches,
                   timeouts, nfetch, wasReady>>
    /\ UNCHANGED litellmVars
    /\ UNCHANGED handlerVars

\* connectionTestResult while it is null
NoResult == [none |-> TRUE]

NoTest == [inFlight |-> FALSE, body |-> [none |-> TRUE]]

\* the texts of the two inputs of lines 427-451; "" is the empty input
ApiKeys == {"", "k1", "k2"}

BaseUrls == {"", "b1"}

\* lines 468-471: JSON.stringify({ api_key, base_url })
Credentials == [api_key |-> litellmApiKey, base_url |-> litellmBaseUrl]

\* the bodies /api/litellm/test-connection answers with, whatever its status
TestConnectionResponses ==
    { TestConnection_Ok(ans).body : ans \in BackendAnswers }
    \cup { TestConnection_NotOk(ans).body : ans \in BackendAnswers }
    \cup { TestConnection_Caught(FetchFailed).body }

\* lines 431-434: the API key input changed
EditApiKey(text) ==
    /\ ~isLoading
    /\ provider = "litellm"
    /\ text # litellmApiKey
    /\ litellmApiKey' = text
    /\ connectionTestResult' = NoResult
    /\ lastEvent' = "editApiKey"
    /\ UNCHANGED <<litellmBaseUrl, isTestingConnection, testFetch, resultFor, ntest>>
    /\ UNCHANGED <<provider, model, isCustomModel, customModel, modelConfig, isLoading,
                   error, configFetches, timeouts, nfetch, wasReady>>
    /\ UNCHANGED handlerVars

\* lines 445-448: the base URL input changed
EditBaseUrl(text) ==
    /\ ~isLoading
    /\ provider = "litellm"
    /\ text # litellmBaseUrl
    /\ litellmBaseUrl' = text
    /\ connectionTestResult' = NoResult
    /\ lastEvent' = "editBaseUrl"
    /\ UNCHANGED <<litellmApiKey, isTestingConnection, testFetch, resultFor, ntest>>
    /\ UNCHANGED <<provider, model, isCustomModel, customModel, modelConfig, isLoading,
                   error, configFetches, timeouts, nfetch, wasReady>>
    /\ UNCHANGED handlerVars

\* lines 73-76, 80-100: the parent renders the form with another litellmApiKey; the
\* effects of lines 89-100 copy it when the form keeps the value itself
PropsChange(text) ==
    /\ text # litellmApiKey
    /\ litellmApiKey' = text
    /\ lastEvent' = "propsChange"
    /\ UNCHANGED <<litellmBaseUrl, isTestingConnection, connectionTestResult, testFetch,
                   resultFor, ntest>>
    /\ UNCHANGED <<provider, model, isCustomModel, customModel, modelConfig, isLoading,
                   error, configFetches, timeouts, nfetch, wasReady>>
    /\ UNCHANGED handlerVars

\* lines 457-472, 486: the Test Connection button was clicked
TestConnectionClick ==
    /\ ~isLoading
    /\ provider = "litellm"
    /\ ~isTestingConnection
    /\ litellmApiKey # ""
    /\ litellmBaseUrl # ""
    /\ ntest < MaxTests
    /\ isTestingConnection' = TRUE
    /\ connectionTestResult' = NoResult
    /\ testFetch' = [inFlight |-> TRUE, body |-> Credentials]
    /\ ntest' = ntest + 1
    /\ lastEvent' = "testClick"
    /\ UNCHANGED <<litellmApiKey, litellmBaseUrl, resultFor>>
    /\ UNCHANGED <<provider, model, isCustomModel, customModel, modelConfig, isLoading,
                   error, configFetches, timeouts, nfetch, wasReady>>
    /\ UNCHANGED handlerVars

\* lines 474-475, 481-483: the fetch resolved and response.json() gave result
TestConnectionResolved(result) ==
    /\ testFetch.inFlight
    /\ connectionTestResult' = result
    /\ isTestingConnection' = FALSE
    /\ resultFor' = testFetch.body
    /\ testFetch' = NoTest
    /\ lastEvent' = "testResolved"
    /\ UNCHANGED <<litellmApiKey, litellmBaseUrl, ntest>>
    /\ UNCHANGED <<provider, model, isCustomModel, customModel, modelConfig, isLoading,
                   error, configFetches, timeouts, nfetch, wasReady>>
    /\ UNCHANGED handlerVars

\* lines 476-483: the fetch rejected, or the answer was not JSON
TestConnectionRejected ==
    /\ testFetch.inFlight
    /\ connectionTestResult' = [success |-> FALSE, message |-> "Error: Failed to fetch"]
    /\ isTestingConnection' = FALSE
    /\ resultFor' = testFetch.body
    /\ testFetch' = NoTest
    /\ lastEvent' = "testRejected"
    /\ UNCHANGED <<litellmApiKey, litellmBaseUrl, ntest>>
    /\ UNCHANGED <<provider, model, isCustomModel, customModel, modelConfig, isLoading,
                   error, configFetches, timeouts, nfetch, wasReady>>
    /\ UNCHANGED handlerVars

\* no form is mounted
Unmounted ==
    /\ provider = ""
    /\ model = ""
    /\ isCustomModel = FALSE
    /\ customModel = ""
    /\ modelConfig = NoConfig
    /\ isLoading = TRUE
    /\ error = ""
    /\ configFetches = <<>>
    /\ timeouts = <<>>
    /\ nfetch = 0
    /\ wasReady = FALSE
    /\ lastEvent = "none"
    /\ litellmApiKey = ""
    /\ litellmBaseUrl = ""
    /\ isTestingConnection = FALSE
    /\ connectionTestResult = NoResult
    /\ testFetch = NoTest
    /\ resultFor = [none |-> TRUE]
    /\ ntest = 0

\* no request is being served
NoRequest ==
    /\ handler = "route"
    /\ url = <<>>
    /\ bodyKind = "urlString"
    /\ pc = "done"
    /\ idx = 0
    /\ baseUrl = <<>>
    /\ timerArmed = FALSE
    /\ aborted = FALSE
    /\ fetchCalls = <<>>
    /\ upstream = 0
    /\ lastError = NoError
    /\ response = NoResponse
    /\ tried = <<>>
    /\ nreq = MaxRequests
    /\ verified = "pending"
    /\ reqBody = NoBody
    /\ forwarded = NotForwarded
    /\ backend = NoAnswer

\* the form after mount: lines 107-114 and the first run of the effect of lines 120-155
InitForm ==
    /\ NoRequest
    /\ \E props \in MountProps :
          /\ provider = props.provider
          /\ model = props.model
          /\ configFetches = <<props.provider>>
    /\ isCustomModel = FALSE
    /\ customModel = ""
    /\ modelConfig = NoConfig
    /\ isLoading = TRUE
    /\ error = ""
    /\ timeouts = <<>>
    /\ nfetch = 1
    /\ wasReady = FALSE
    /\ lastEvent = "mount"
    /\ litellmApiKey \in {"", "k1"}
    /\ litellmBaseUrl \in BaseUrls
    /\ isTestingConnection = FALSE
    /\ connectionTestResult = NoResult
    /\ testFetch = NoTest
    /\ resultFor = [none |-> TRUE]
    /\ ntest = 0

NextForm ==
    \/ \E i \in 1..MaxFetches : ConfigFetchResolved(i, Catalog)
    \/ \E i \in 1..MaxFetches : ConfigFetchFailed(i)
    \/ \E newProvider \in {"google", "litellm"} : ProviderPropChange(newProvider)
    \/ \E newProvider \in {"google", "litellm"} : handleProviderChange(newProvider)
    \/ ProviderChangeTimeout
    \/ \E m \in {"g1", "g2", "l1"} : SelectModel(m)
    \/ ToggleCustomModel
    \/ \E text \in CustomTexts : EditCustomModel(text)
    \/ \E text \in ApiKeys : EditApiKey(text)
    \/ \E text \in BaseUrls : EditBaseUrl(text)
    \/ \E text \in ApiKeys : PropsChange(text)
    \/ \E result \in TestConnectionResponses : TestConnectionResolved(result)
    \/ TestConnectionClick
    \/ TestConnectionRejected

SpecForm == InitForm /\ [][NextForm]_vars

-----------------------------------------------------------------------------
(* Requests                                                                *)

Proxies == {"test-connection", "structure"}

Handlers == {"route", "part_000", "extractUrlDomain"} \cup Proxies

\* the requests: a handler with its request body
Requests ==
    [handler : {"route", "part_000", "extractUrlDomain"}, url : Urls,
     bodyKind : {"urlString"}, reqBody : {NoBody}]
    \cup [handler : {"route", "part_000"}, url : {<<>>},
          bodyKind : BodyKinds \ {"urlString"}, reqBody : {NoBody}]
    \cup [handler : {"test-connection"}, url : {<<>>},
          bodyKind : {"object"}, reqBody : TestConnectionBodies]
    \cup [handler : {"structure"}, url : {<<>>},
          bodyKind : {"object"}, reqBody : StructureBodies]
    \cup [handler : Proxies, url : {<<>>}, bodyKind : {"notJson"}, reqBody : {NoBody}]

Init ==
    /\ \E rq \in Requests :
          /\ handler = rq.handler
          /\ url = rq.url
          /\ bodyKind = rq.bodyKind
          /\ reqBody = rq.reqBody
    /\ forwarded = NotForwarded
    /\ backend = NoAnswer
    /\ pc = "start"
    /\ idx = 0
    /\ baseUrl = <<>>
    /\ timerArmed = FALSE
    /\ aborted = FALSE
    /\ fetchCalls = <<>>
    /\ upstream = 0
    /\ lastError = NoError
    /\ response = NoResponse
    /\ tried = <<>>
    /\ nreq = 1
    /\ verified = "pending"
    /\ Unmounted

\* the next request: every request has its own url, controller, timer and lastError
NewRequest ==
    /\ pc = "done"
    /\ nreq < MaxRequests
    /\ \E rq \in Requests :
          /\ handler' = rq.handler
          /\ url' = rq.url
          /\ bodyKind' = rq.bodyKind
          /\ reqBody' = rq.reqBody
    /\ forwarded' = NotForwarded
    /\ backend' = NoAnswer
    /\ pc' = "start"
    /\ idx' = 0
    /\ baseUrl' = <<>>
    /\ timerArmed' = FALSE
    /\ aborted' = FALSE
    /\ fetchCalls' = <<>>
    /\ upstream' = 0
    /\ lastError' = NoError
    /\ response' = NoResponse
    /\ tried' = <<>>
    /\ nreq' = nreq + 1
    /\ verified' = "pending"
    /\ UNCHANGED formVars

Next ==
    \/ POST_Start
    \/ \E status \in Statuses : POST_FetchResolved(status)
    \/ \E text \in Bodies : POST_TextResolved(text)
    \/ \E err \in TransportErrors \cup AbortErrors : POST_Rejected(err)
    \/ TimeoutFires
    \/ Part000_Start
    \/ \E status \in Statuses : Part000_FetchResolved(status)
    \/ \E text \in Bodies : Part000_TextResolved(text)
    \/ \E err \in TransportErrors \cup AbortErrors : Part000_Rejected(err)
    \/ ExtractUrlDomain
    \/ VerifyGerritProject_Answered
    \/ VerifyGerritProject_FetchFailed
    \/ TestConnection_Start
    \/ \E ans \in BackendAnswers : TestConnection_Answered(ans)
    \/ TestConnection_Unreachable
    \/ Structure_Start
    \/ \E ans \in BackendAnswers : Structure_Answered(ans)
    \/ Structure_Unreachable
    \/ NewRequest

Spec == Init /\ [][Next]_vars

-----------------------------------------------------------------------------
(* Properties                                                              *)

\* the version the claims expect for a decoded value
ExpectedVersion(d) ==
    IF d.type = "string" THEN [type |-> "string", str |-> d.str]
    ELSE IF d.gvType = "absent" \/ d.gvStr = <<>> \/ d.gvStr = <<"0">> THEN Unknown
    ELSE [type |-> d.gvType, str |-> d.gvStr]

\* the value the body of candidate i decodes to in route.ts
Decoded(i) == JSONparse(cleanedText(tried[i].text))

\* candidate i answered 2xx with a body that decodes to a string or non-null object
ValidBody(i) ==
    /\ tried[i].kind = "body"
    /\ trim(tried[i].text) # <<>>
    /\ Decoded(i).type \in {"string", "object", "array"}

\* C1: in route.ts, when the first candidate answers 403 or 404 the handler goes on
\* to the second candidate, and when that one answers 2xx with a body decoding to a
\* JSON string or non-null object the response is isGerrit:true with the version of
\* the second body.
C1_FallbackSucceeds ==
    handler = "route" /\ Len(tried) >= 1 /\ tried[1].kind = "status"
        /\ tried[1].status \in {403, 404}
    => /\ Len(tried) = 1 => pc \in {"fetch", "text"} /\ idx = 2 /\ response = NoResponse
       /\ Len(tried) = 2 /\ ValidBody(2) =>
            /\ pc = "done"
            /\ response = Json([isGerrit |-> TRUE, version |-> ExpectedVersion(Decoded(2))])

\* first candidate 404, second )]}'\n"2.7": isGerrit:true, version "2.7"
C1_Witness ==
    /\ handler = "route"
    /\ pc = "done"
    /\ Len(tried) = 2
    /\ tried[1].kind = "status" /\ tried[1].status = 404
    /\ tried[2].kind = "body" /\ tried[2].text = XSSI \o <<"\n">> \o V27
    /\ response.status = 200
    /\ response.body.isGerrit
    /\ response.body.version = [type |-> "string", str |-> <<"2", ".", "7">>]

-----------------------------------------------------------------------------
\* number of candidate endpoints of the handler serving the request
Candidates == IF handler = "route" THEN Len(endpointsToTry(baseUrl)) ELSE 1

\* after the outcome of candidate i the handler went on to candidate i + 1
WentOn(i) ==
    /\ Len(fetchCalls) >= i + 1
    /\ fetchCalls[i + 1].cand = i + 1
    /\ Len(tried) = i => pc \in {"fetch", "text"} /\ idx = i + 1 /\ response = NoResponse

\* the outcome of candidate i ended the request: nothing was fetched after it
StoppedAt(i) ==
    /\ Len(tried) = i
    /\ Len(fetchCalls) = i
    /\ pc = "done"

\* C2 (as claimed): in route.ts, once the abort token has expired while a candidate's
\* fetch or body read was in flight, the handler answers isGerrit:false with reason
\* "Request timeout" and calls fetch for no further candidate, whatever the name and
\* the wording of the abort error.
C2_TimeoutStops ==
    handler = "route" =>
        \A i \in 1..Len(tried) :
            tried[i].aborted /\ (\A j \in 1..(i - 1) : ~tried[j].aborted) =>
                /\ StoppedAt(i)
                /\ response.status = 200
                /\ response.body.isGerrit = FALSE
                /\ response.body.reason = Words("Request timeout")

\* C3 (as claimed): a non-2xx answer lets the probe go on only when the status is 403
\* or 404 and a candidate remains; every other non-2xx answer, and any non-2xx answer
\* of the last candidate, is returned at once as isGerrit:false with the HTTP status.
C3_OnlyAfter403And404 ==
    handler \in {"route", "part_000"} =>
        \A i \in 1..Len(tried) : tried[i].kind = "status" =>
            IF tried[i].status \in {403, 404} /\ i < Candidates
            THEN WentOn(i)
            ELSE /\ StoppedAt(i)
                 /\ response.status = 200
                 /\ response.body.isGerrit = FALSE
                 /\ response.body.reason = HttpReason(tried[i].status)

\* C3 (amended): a non-2xx answer, whatever its status, lets the probe go on whenever
\* a candidate remains; a non-2xx answer of the last candidate is returned at once as
\* isGerrit:false with a reason naming that HTTP status, and nothing is fetched after.
C3_AnyStatusFallsBack ==
    handler \in {"route", "part_000"} =>
        \A i \in 1..Len(tried) : tried[i].kind = "status" =>
            IF i < Candidates
            THEN WentOn(i)
            ELSE /\ StoppedAt(i)
                 /\ response.status = 200
                 /\ response.body.isGerrit = FALSE
                 /\ response.body.reason = HttpReason(tried[i].status)

\* first candidate 500, second candidate 401: the answer names 401
C3_Witness ==
    /\ handler = "route"
    /\ pc = "done"
    /\ Len(tried) = 2
    /\ tried[1].kind = "status" /\ tried[1].status = 500
    /\ tried[2].kind = "status" /\ tried[2].status = 401
    /\ response.body.reason = HttpReason(401)

\* the classification of lines 175-180, on the error of candidate i
NetworkErrorAt(i) ==
    \/ \E w \in {"ECONNREFUSED", "ENOTFOUND", "ETIMEDOUT"} :
          \E k \in 1..Len(tried[i].err.message) : tried[i].err.message[k] = w
    \/ \E k \in 1..(Len(tried[i].err.message) - 1) :
          tried[i].err.message[k] = "fetch" /\ tried[i].err.message[k + 1] = "failed"
    \/ tried[i].err.name \in {"TypeError", "NetworkError"}

\* the message of the error of candidate i contains 'aborted' or 'timeout'
TimeoutWordingAt(i) ==
    \E k \in 1..Len(tried[i].err.message) : tried[i].err.message[k] \in {"aborted", "timeout"}

\* the answer to a transport error of candidate i carries the error's message
Diagnosed(i) ==
    /\ response.status = 200
    /\ response.body.isGerrit = FALSE
    /\ "reason" \in DOMAIN response.body
    /\ IF "details" \in DOMAIN response.body
       THEN response.body.details = tried[i].err.message
       ELSE "error" \in DOMAIN response.body /\ response.body.error = tried[i].err.message

\* C4 (as claimed): after a transport error the probe goes on only when the error is
\* classified as a network error and a candidate remains; an error not classified as
\* a network error is answered with a failure instead of trying the next candidate.
C4_OnlyAfterNetworkErrors ==
    handler = "route" =>
        \A i \in 1..Len(tried) : tried[i].kind = "error" =>
            IF NetworkErrorAt(i) /\ i < Candidates
            THEN WentOn(i)
            ELSE StoppedAt(i) /\ Diagnosed(i)

\* C4 (amended): after a transport error the probe goes on to the next candidate when
\* a candidate remains and the error either is classified as a network error or has a
\* message containing neither 'aborted' nor 'timeout'; otherwise (last candidate, or an
\* unclassified error worded as an abort or timeout) it answers with a failure that
\* carries the error's message.
C4_FallsBackUnlessTimeout ==
    handler = "route" =>
        \A i \in 1..Len(tried) : tried[i].kind = "error" =>
            IF i < Candidates /\ (NetworkErrorAt(i) \/ ~TimeoutWordingAt(i))
            THEN WentOn(i)
            ELSE StoppedAt(i) /\ Diagnosed(i)

\* "socket hang up" on the first candidate, then the second candidate is fetched
C4_Witness ==
    /\ handler = "route"
    /\ Len(tried) = 2
    /\ tried[1].kind = "error"
    /\ tried[1].err = [name |-> "Error", message |-> <<"socket", "hang", "up">>]
    /\ tried[2].kind = "error"
    /\ tried[2].err = [name |-> "Error", message |-> <<"socket", "timeout">>]
    /\ pc = "done"
    /\ response.body.reason = Words("Request timeout")

\* C5 (as claimed): once the url has passed validation, both handlers answer HTTP 200
\* with a boolean isGerrit, and an answer with isGerrit false carries a reason.
C5_FailuresAreData ==
    handler \in {"route", "part_000"} /\ pc = "done" /\ fetchCalls # <<>> =>
        /\ response.status = 200
        /\ "isGerrit" \in DOMAIN response.body
        /\ response.body.isGerrit \in BOOLEAN
        /\ ~response.body.isGerrit => "reason" \in DOMAIN response.body

-----------------------------------------------------------------------------
\* C6 (as claimed): an input without a URL scheme is treated as https://<input> by
\* the handlers and by extractUrlDomain, also when it begins with the letters http;
\* an input beginning with https:// or http:// keeps its scheme; the url is refused
\* as invalid exactly when parsing the normalized string fails.
C6_NoSchemeMeansHttps ==
    pc = "done" /\ url # <<>> =>
        LET scheme == SchemeEnd(url)
            expected == IF scheme = 0 THEN URL(Https \o url) ELSE URL(url)
            origin == expected.protocol \o <<"/", "/">> \o expected.hostname
                        \o (IF expected.port # <<>> THEN <<":">> \o expected.port ELSE <<>>)
        IN  scheme = 0 \/ startsWith(url, Https)
                \/ startsWith(url, <<"h", "t", "t", "p", ":", "/", "/">>) =>
                IF handler = "extractUrlDomain"
                THEN response.body.domain = IF expected.ok THEN origin ELSE NoDomain
                ELSE IF expected.ok
                THEN baseUrl = origin /\ response.status = 200
                ELSE response = BadRequest("Invalid URL format")

\* the decoder of the handler serving the request, on the body of candidate i
DecodedBy(i) ==
    IF handler = "route" THEN JSONparse(cleanedText(tried[i].text))
    ELSE JSONparse(cleanedTextPart000(tried[i].text))

\* C7: a 2xx answer whose body decodes to a JSON string or a non-null object (arrays
\* included) is answered isGerrit:true with the string, or the object's
\* gerrit_version, or "unknown" when that is absent or falsy; an answer is
\* isGerrit:true only for such a body, never for a number, a boolean or null.
C7_Classification ==
    handler \in {"route", "part_000"} =>
        /\ \A i \in 1..Len(tried) :
              tried[i].kind = "body" /\ DecodedBy(i).type \in {"string", "object", "array"} =>
                  /\ StoppedAt(i)
                  /\ response = Json([isGerrit |-> TRUE,
                                      version |-> ExpectedVersion(DecodedBy(i))])
        /\ pc = "done" /\ "isGerrit" \in DOMAIN response.body /\ response.body.isGerrit =>
              /\ tried # <<>>
              /\ tried[Len(tried)].kind = "body"
              /\ DecodedBy(Len(tried)).type \in {"string", "object", "array"}

\* {"gerrit_version":""} is answered isGerrit:true, version "unknown"
C7_Witness ==
    /\ handler \in {"route", "part_000"}
    /\ pc = "done"
    /\ tried # <<>>
    /\ tried[Len(tried)].kind = "body"
    /\ tried[Len(tried)].text = GerritVersionKey \o <<"\"", "\"", "}">>
    /\ response = Json([isGerrit |-> TRUE, version |-> Unknown])

\* the rule of the XSSI decoder as the claim states it: the prefix is stripped only at
\* offset 0, with the whitespace that follows it; otherwise the text is trimmed
XssiRule(text) ==
    IF Len(text) >= 4 /\ SubSeq(text, 1, 4) = <<")", "]", "}", "'">>
    THEN trimStart(SubSeq(text, 5, Len(text)))
    ELSE trim(text)

\* C8 (as claimed): both handlers decode a body by that one rule, so the value a
\* handler answers from is the value the rule gives, or both fail.
C8_SameDecoding ==
    handler \in {"route", "part_000"} /\ pc = "done" /\ tried # <<>>
        /\ tried[Len(tried)].kind = "body" /\ trim(tried[Len(tried)].text) # <<>> =>
        LET d == JSONparse(XssiRule(tried[Len(tried)].text))
        IN  IF d.type \in {"string", "object", "array"}
            THEN response = Json([isGerrit |-> TRUE, version |-> ExpectedVersion(d)])
            ELSE response.body.isGerrit = FALSE

\* C9: a 2xx answer whose body is empty after trimming lets the probe go on to the
\* next candidate when one remains; on the last candidate the answer is isGerrit:false
\* with reason exactly "Empty response".
C9_EmptyResponse ==
    handler \in {"route", "part_000"} =>
        \A i \in 1..Len(tried) : tried[i].kind = "body" /\ trim(tried[i].text) = <<>> =>
            IF i < Candidates
            THEN WentOn(i)
            ELSE /\ StoppedAt(i)
                 /\ response = Json([isGerrit |-> FALSE, reason |-> Words("Empty response")])

\* both candidates answer 2xx with nothing but whitespace
C9_Witness ==
    /\ handler = "route"
    /\ pc = "done"
    /\ Len(tried) = 2
    /\ tried[1].kind = "body" /\ tried[1].text = <<>>
    /\ tried[2].kind = "body" /\ tried[2].text = <<" ", "\n">>
    /\ response.body.reason = Words("Empty response")

\* the answer describes the failure o of a candidate
Describes(o) ==
    LET b == response.body
        cleaned == XssiRule(o.text)
        d == JSONparse(cleaned)
    IN  /\ response.status = 200
        /\ b.isGerrit = FALSE
        /\ IF o.kind = "status" THEN b.reason = HttpReason(o.status)
           ELSE IF o.kind = "error"
           THEN IF b.reason = Words("Request timeout")
                THEN b.error = o.err.message
                ELSE b.details = o.err.message /\ b.errorName = o.err.name
           ELSE IF trim(o.text) = <<>> THEN b.reason = Words("Empty response")
           ELSE IF cleaned = <<>> THEN b.reason = Words("No content after removing XSSI prefix")
           ELSE IF d.type = "error"
           THEN b.reason = Words("Failed to parse as JSON") /\ b.responseText = cleaned
           ELSE /\ b.reason = Words("Response format is not a valid Gerrit version")
                /\ b.details[Len(b.details)] = IF d.type = "null" THEN "object" ELSE d.type

\* C10: in route.ts, when the last candidate has been tried without a success the
\* answer is isGerrit:false and its reason and details are those of the failure of
\* the last candidate tried, not of an earlier one.
C10_LastFailureReported ==
    handler = "route" /\ pc = "done" /\ Len(tried) = Candidates
        /\ ~(tried[Len(tried)].kind = "body"
                /\ DecodedBy(Len(tried)).type \in {"string", "object", "array"}) =>
        Describes(tried[Len(tried)])

\* first candidate ECONNREFUSED, second candidate "socket hang up": the answer
\* carries the second error
C10_Witness ==
    /\ handler = "route"
    /\ pc = "done"
    /\ Len(tried) = 2
    /\ tried[1].kind = "error"
    /\ tried[1].err = [name |-> "Error", message |-> <<"connect", "ECONNREFUSED">>]
    /\ tried[2].kind = "error"
    /\ tried[2].err = [name |-> "Error", message |-> <<"socket", "hang", "up">>]
    /\ response.body.details = <<"socket", "hang", "up">>
    /\ response.body.reason = Words("Network error")

-----------------------------------------------------------------------------
\* number of characters of s that are in chars
RECURSIVE Count(_, _)
Count(s, chars) ==
    IF s = <<>> THEN 0
    ELSE (IF Head(s) \in chars THEN 1 ELSE 0) + Count(Tail(s), chars)

\* C11: route.ts fetches {base}/config/server/version first and
\* {base}/a/config/server/version second, one after the other: the second fetch is
\* made only once the first candidate has ended in a failure, never after a success,
\* each candidate at most once and at most two in all; base is scheme, host and
\* optional port, so urls that differ in path or query give the same candidates.
C11_SequentialCandidates ==
    handler = "route" =>
        /\ Len(fetchCalls) <= 2
        /\ Len(fetchCalls) <= Len(tried) + 1
        /\ \A k \in 1..Len(fetchCalls) :
              /\ fetchCalls[k].cand = k
              /\ fetchCalls[k].endpoint.base = baseUrl
              /\ fetchCalls[k].endpoint.path =
                    IF k = 1 THEN "/config/server/version" ELSE "/a/config/server/version"
        /\ Len(fetchCalls) = 2 => ~ValidBody(1)
        /\ \A i \in 1..Len(tried) : ValidBody(i) => Len(fetchCalls) = i
        /\ fetchCalls # <<>> =>
              /\ Count(baseUrl, {"/"}) = 2
              /\ Count(baseUrl, {"?", "#", " "}) = 0
        /\ fetchCalls # <<>> /\ url \in { <<"g", ".", "c">>, <<"g", ".", "c", "/", "r">>,
                                          <<"g", ".", "c", "?", "q">>,
                                          Https \o <<"g", ".", "c", "/", "r">> } =>
              baseUrl = Https \o <<"g", ".", "c">>

\* the url g.c?q, both candidates fetched in order under https://g.c
C11_Witness ==
    /\ handler = "route"
    /\ url = <<"g", ".", "c", "?", "q">>
    /\ Len(fetchCalls) = 2
    /\ fetchCalls[1].endpoint = [base |-> Https \o <<"g", ".", "c">>, path |-> "/config/server/version"]
    /\ fetchCalls[2].endpoint = [base |-> Https \o <<"g", ".", "c">>, path |-> "/a/config/server/version"]
    /\ pc = "done"

-----------------------------------------------------------------------------
\* C12 (as stated): a verify request whose url is missing or not a non-empty string,
\* a null or non-object JSON body included, is answered 400 with no fetch made and no
\* timer armed.
C12_BadUrlIs400 ==
    /\ handler \in {"route", "part_000"}
    /\ pc = "done"
    /\ bodyKind # "notJson"
    /\ ~urlIsNonEmptyString
    => /\ response.status = 400
       /\ fetchCalls = <<>>
       /\ ~timerArmed

-----------------------------------------------------------------------------
\* C13 (as stated): when the backend answers with a JSON body, each proxy handler
\* answers with the backend's status code and the backend's body, for error statuses
\* and for success statuses other than 200 alike.
C13_RelaysStatusAndBody ==
    /\ handler \in Proxies
    /\ pc = "done"
    /\ backend.kind = "answer"
    /\ backend.json
    => /\ response.status = backend.status
       /\ response.body = backend.body

\* C14 (as stated): the body a proxy handler sends to the backend is the caller's
\* body, with the same fields and values.
C14_ForwardsUnmodified ==
    handler \in Proxies /\ forwarded # NotForwarded => forwarded = reqBody

\* C14 (amended): test-connection sends on the caller's body as it is; structure
\* sends on the caller's repo_url, gerrit_user and token, each present exactly when
\* the caller sent it and with the caller's value, and no other field; a body is sent
\* on exactly when the request body was read and (for structure) repo_url is not empty.
C14_ForwardsNamedFields ==
    handler \in Proxies =>
        /\ forwarded # NotForwarded <=>
              /\ pc # "start"
              /\ bodyKind = "object"
              /\ handler = "structure" => ~NoRepoUrl(reqBody)
        /\ handler = "test-connection" /\ forwarded # NotForwarded => forwarded = reqBody
        /\ handler = "structure" /\ forwarded # NotForwarded =>
              /\ DOMAIN forwarded = DOMAIN reqBody \cap {"repo_url", "gerrit_user", "token"}
              /\ \A f \in DOMAIN forwarded : forwarded[f] = reqBody[f]

\* structure was sent a body with a branch field: the backend gets the other three
C14_Witness ==
    /\ handler = "structure"
    /\ pc = "done"
    /\ reqBody = [repo_url |-> "r", gerrit_user |-> "u", token |-> "t", branch |-> "m"]
    /\ forwarded = [repo_url |-> "r", gerrit_user |-> "u", token |-> "t"]
    /\ backend.kind = "answer"

\* the backend did not answer, or answered with a body that is not JSON
Malformed == backend.kind = "answer" /\ ~backend.json

\* the bodies a handler can answer with that are JSON objects
WellFormed(body) ==
    /\ body # NoResponse.body
    /\ "text" \notin DOMAIN body
    /\ DOMAIN body # {}

\* the generic failure envelope of each proxy handler
IsEnvelope(body) ==
    IF handler = "test-connection"
    THEN DOMAIN body = {"success", "message"} /\ body.success = FALSE
    ELSE body = [error |-> "Internal Server Error during Gerrit structure retrieval"]

\* C15 (as stated): when the backend is unreachable or its body is not JSON, whatever
\* its status, a proxy handler answers 500 with its generic failure envelope, and
\* every answer is a well-formed JSON body.
C15_AlwaysEnvelope500 ==
    handler \in Proxies /\ pc = "done" =>
        /\ WellFormed(response.body)
        /\ backend = Unreachable \/ Malformed =>
              response.status = 500 /\ IsEnvelope(response.body)

\* C15 (amended): when the backend is unreachable, or answers 2xx with a body that is
\* not JSON, a proxy handler answers 500 with its generic failure envelope; when the
\* backend answers a non-2xx status with a body that is not JSON, the handler answers
\* with the backend's status and the body {error: 'Unknown error'} (test-connection)
\* or {error: <the backend's text>} (structure); every answer is well-formed JSON.
C15_EnvelopeOrRelayedStatus ==
    handler \in Proxies /\ pc = "done" =>
        /\ WellFormed(response.body)
        /\ backend = Unreachable \/ (Malformed /\ ok(backend.status)) =>
              response.status = 500 /\ IsEnvelope(response.body)
        /\ Malformed /\ ~ok(backend.status) =>
              /\ response.status = backend.status
              /\ response.body = IF handler = "test-connection"
                                 THEN [error |-> "Unknown error"]
                                 ELSE [error |-> backend.body.text]

\* the backend answered test-connection 503 with an HTML page
C15_Witness ==
    /\ handler = "test-connection"
    /\ pc = "done"
    /\ backend = [kind |-> "answer", status |-> 503, json |-> FALSE, body |-> [text |-> "<html>"]]
    /\ response = [status |-> 503, body |-> [error |-> "Unknown error"]]

-----------------------------------------------------------------------------
\* C16 (as stated): whenever the form is shown with a catalog and a selected provider,
\* and no provider change is still waiting to finish, isCustomModel is set or model is
\* one of the models of the selected provider.
C16_ModelBelongsToProvider ==
    /\ ~isLoading
    /\ modelConfig # NoConfig
    /\ provider # ""
    /\ timeouts = <<>>
    => isCustomModel \/ model \in ModelsOf(modelConfig, provider)

\* C17 (as stated): /api/models/config is fetched once per mount, and once the form
\* has been shown it does not show the Loading text again.
C17_FetchedOnce ==
    /\ nfetch <= 1
    /\ wasReady => ~isLoading

\* C18 (as stated): selectProvider is one step: right after it isCustomModel is false
\* and model is the first model of the new provider, and no part of it is left to run
\* later.
C18_SelectProviderAtomic ==
    /\ lastEvent = "selectProvider" =>
          /\ ~isCustomModel
          /\ model = FirstModelOr(modelConfig, provider, model)
    /\ timeouts = <<>>

-----------------------------------------------------------------------------
\* C19 (as stated): whenever connectionTestResult is not null, it is the result of a
\* test that sent the credentials entered now.
C19_ResultIsOfCurrentCredentials ==
    connectionTestResult # NoResult => resultFor = Credentials

\* C20 (as stated): right after a connection test has completed, isTestingConnection
\* is false and connectionTestResult has a success field and a message field.
C20_ResultHasSuccessAndMessage ==
    lastEvent \in {"testResolved", "testRejected"} =>
        /\ ~isTestingConnection
        /\ {"success", "message"} \subseteq DOMAIN connectionTestResult

-----------------------------------------------------------------------------
\* C21: the promise of verifyGerritProject never rejects; it resolves to true exactly
\* when the verify handler answered 2xx with a body whose isGerrit is true, which
\* happens only when a candidate answered 2xx with a body decoding to a JSON string
\* or non-null object; it resolves to false after a 400, a 500, a probe failure and a
\* failed fetch.
C21_TrueOnlyForGerrit ==
    handler \in {"route", "part_000"} =>
        /\ verified # "rejected"
        /\ verified # "pending" =>
              /\ verified \in {"true", "false"}
              /\ verified = "true" <=>
                    /\ pc = "done"
                    /\ response.status \in 200..299
                    /\ "isGerrit" \in DOMAIN response.body
                    /\ response.body.isGerrit = TRUE
              /\ verified = "true" =>
                    \E i \in 1..Len(tried) :
                        /\ tried[i].kind = "body"
                        /\ DecodedBy(i).type \in {"string", "object", "array"}
              /\ pc = "lost" \/ response.status \in {400, 500} \/ tried = <<>> =>
                    verified = "false"

\* the probe of g.c/r resolved to true after a 404 and a 2xx body
C21_Witness ==
    /\ handler = "route"
    /\ verified = "true"
    /\ Len(tried) = 2
    /\ tried[1].kind = "status" /\ tried[1].status = 404
    /\ response.body.isGerrit = TRUE

\* the probe resolved to false: the url was refused with 400
C21_WitnessFalse ==
    /\ handler = "route"
    /\ verified = "false"
    /\ pc = "done"
    /\ response.status = 400

-----------------------------------------------------------------------------
\* C22 (as stated): the form shows the Loading text exactly while a fetch of the
\* catalog is in flight, overlapping fetches included, and right after a fetch failed
\* the error is set.
C22_LoadingWhileFetching ==
    /\ isLoading <=> configFetches # <<>>
    /\ lastEvent = "configFailed" => error = LoadFailed

-----------------------------------------------------------------------------
\* C23: in route.ts the outcome of every candidate either sends the handler on to the
\* next candidate or ends the request with a response, and the outcome of the last
\* candidate always ends it; the response after the loop, "Could not verify Gerrit
\* server", is never given; and no response is given with the timer still pending.
C23_LoopAlwaysReturns ==
    handler = "route" =>
        /\ \A i \in 1..Len(tried) : WentOn(i) \/ StoppedAt(i)
        /\ \A i \in 1..Len(tried) : i < Len(tried) => tried[i].cand < tried[i + 1].cand
        /\ Len(tried) = Len(endpointsToTry(baseUrl)) => StoppedAt(Len(tried))
        /\ pc = "done" /\ "reason" \in DOMAIN response.body =>
              response.body.reason.text # "Could not verify Gerrit server"
        /\ pc = "done" => ~timerArmed

\* both candidates failed with "socket hang up": the second one's catch block gives
\* the response "Network error", with the timer cancelled
C23_Witness ==
    /\ handler = "route"
    /\ pc = "done"
    /\ Len(tried) = 2
    /\ tried[1].kind = "error"
    /\ tried[2].kind = "error"
    /\ ~tried[2].aborted
    /\ ~isNetworkError(tried[2].err)
    /\ response.body.reason = Words("Network error")
    /\ ~timerArmed

====
